---- MODULE Spec2Model ----
(***************************************************************************)
(* Model of the image-downloader scripts:                                  *)
(*   libs/image_manager.py  ImageManager  (link extraction, download,      *)
(*                                         padded resize)                  *)
(*   libs/azure_manager.py  AzureManager  (grouping of saved files into    *)
(*                                         the upload manifest)            *)
(* Python strings are modelled as sequences of one-character strings, so   *)
(* that substring tests, split, replace and the regular expression are     *)
(* computed and not assumed.                                               *)
(***************************************************************************)
EXTENDS Integers, Sequences, FiniteSets, TLC

VARIABLES
    pc,               \* position of the main thread / of the running function
    \* ---- ImageManager._return_links
    url_list,         \* list(csv.reader(f)): the rows of the input csv
    link_list,        \* the [img_name, link] pairs built so far
    row_i,            \* number of rows of url_list already processed
    \* ---- ImageManager.start_download / _donwload_images
    download_links,   \* the work items start_download iterates over
    name_prefix,      \* self.name_prefix
    resize,           \* self.resize
    new_size,         \* self.new_size
    idx,              \* index of the work item of the current loop iteration
    total_downloaded, \* the counter of start_download
    fut,              \* per item: state of the future returned by submit
    st,               \* per item: position inside _donwload_images
    attempts,         \* per item: the HTTP clients a request was issued with
    status,           \* per item: status of the last response (0: none)
    raised,           \* per item: the exceptions raised inside the task, in order
    img,              \* per item: size of the decoded image
    retval,           \* per item: value returned by _donwload_images
    error_log,        \* rows appended to report/error.csv
    files,            \* names of the files in the images directory
    saved_by,         \* items that wrote a file
    \* ---- ImageManager._resize_image
    image,            \* size of the image handed to _resize_image
    result,           \* what _resize_image produced
    \* ---- AzureManager._generate_csv_from_files
    url_base,         \* self.url_base
    directory_files,  \* the directory listing
    file_i,           \* number of listed files already grouped
    dict_files,       \* the insertion-ordered dict base_name -> file names
    manifest          \* rows appended to report/new_file.csv

lkVars == <<url_list, link_list, row_i>>
dlVars == <<download_links, name_prefix, resize, new_size, idx, total_downloaded,
            fut, st, attempts, status, raised, img, retval, error_log, files,
            saved_by>>
rsVars == <<image, result>>
grVars == <<url_base, directory_files, file_i, dict_files, manifest>>
vars == <<pc, lkVars, dlVars, rsVars, grVars>>

(***************************************************************************)
(* Bounds of the model.                                                    *)
(***************************************************************************)
MaxRows == 2
MaxCols == 3
MaxItems == 2
MaxWorkers == 2
MaxDim == 2
MaxSide == 5
MaxSize == 3
MaxStem == 3
MaxFiles == 2
MaxUrls == 3

(***************************************************************************)
(* Strings.                                                                *)
(***************************************************************************)
Digits == <<"0", "1", "2", "3", "4", "5", "6", "7", "8", "9">>

DigitChars == {Digits[d] : d \in 1..10}

RECURSIVE Str(_)
\* str(n) of a non-negative int
Str(n) == IF n < 10 THEN <<Digits[n + 1]>>
          ELSE Str(n \div 10) \o <<Digits[(n % 10) + 1]>>

\* pat in s
Contains(s, pat) ==
    \E k \in 1..(Len(s) - Len(pat) + 1) : SubSeq(s, k, k + Len(pat) - 1) = pat

Http == <<"h", "t", "t", "p">>
DotJpg == <<".", "j", "p", "g">>

RECURSIVE SeqsUpTo(_, _)
\* all sequences over S of length at most n
SeqsUpTo(S, n) ==
    IF n = 0 THEN {<<>>}
    ELSE LET shorter == SeqsUpTo(S, n - 1)
         IN  shorter \cup {Append(s, x) : s \in {t \in shorter : Len(t) = n - 1}, x \in S}

RECURSIVE Flatten(_)
Flatten(ss) == IF ss = <<>> THEN <<>> ELSE Head(ss) \o Flatten(Tail(ss))

(***************************************************************************)
(* ImageManager._return_links                                              *)
(***************************************************************************)
\* the cells of the row that are taken as links: every cell of the row,
\* the first one included, that contains 'http'
ImgLinks(row) == SelectSeq(row, LAMBDA columns : Contains(columns, Http))

\* the name given to the link at position j (1-based) of img_links:
\* count = j - 1, and num stays '' while count = 0
ImgNameCountFirst(img_row_name, j) ==
    IF j - 1 > 0 THEN img_row_name \o <<"_">> \o Str(j) ELSE img_row_name

ImgName(img_row_name, j) ==
    IF j - 1 > 0 THEN img_row_name \o <<"_">> \o Str(j - 1) ELSE img_row_name

\* the pairs one row adds to link_list
RowLinks(row) ==
    LET img_links == ImgLinks(row)
    IN  [j \in 1..Len(img_links) |-> <<ImgName(row[1], j), img_links[j]>>]

\* one iteration of 'for row in url_list'; row[0] of an empty row raises
ReturnLinksRow ==
    /\ pc = "return_links"
    /\ row_i < Len(url_list)
    /\ LET row == url_list[row_i + 1]
       IN  IF Len(row) = 0
           THEN /\ pc' = "IndexError"
                /\ UNCHANGED <<link_list, row_i>>
           ELSE /\ link_list' = link_list \o RowLinks(row)
                /\ row_i' = row_i + 1
                /\ pc' = pc
    /\ UNCHANGED <<url_list, dlVars, rsVars, grVars>>

\* 'return link_list'
ReturnLinksDone ==
    /\ pc = "return_links"
    /\ row_i = Len(url_list)
    /\ pc' = "links_returned"
    /\ UNCHANGED <<lkVars, dlVars, rsVars, grVars>>

(***************************************************************************)
(* ImageManager._resize_image                                              *)
(***************************************************************************)
\* ---- IEEE 754 double arithmetic on positive values.  A double is the
\* record [m, e]: m its 53 significant bits, first bit 1, and e the number
\* of those bits that stand before the binary point.
Precision == 53

RECURSIVE IntBits(_)
\* the binary digits of n, most significant first (none for 0)
IntBits(n) == IF n = 0 THEN <<>> ELSE IntBits(n \div 2) \o <<n % 2>>

RECURSIVE BitsInt(_)
BitsInt(bits) ==
    IF bits = <<>> THEN 0
    ELSE 2 * BitsInt(SubSeq(bits, 1, Len(bits) - 1)) + bits[Len(bits)]

RECURSIVE FracBits(_, _, _)
\* the first n binary digits of r / w after the point, 0 <= r < w
FracBits(r, w, n) ==
    IF n = 0 THEN <<>>
    ELSE <<(2 * r) \div w>> \o FracBits((2 * r) % w, w, n - 1)

RECURSIVE FracRem(_, _, _)
\* what is left of r / w after its first n binary digits
FracRem(r, w, n) == IF n = 0 THEN r ELSE FracRem((2 * r) % w, w, n - 1)

RECURSIVE LeadZeros(_, _)
\* the zeros that follow the point in r / w, 0 < r < w
LeadZeros(r, w) == IF 2 * r >= w THEN 0 ELSE 1 + LeadZeros(2 * r, w)

\* bits + 1, of the same length, for bits that are not all ones
Increment(bits) ==
    LET p == CHOOSE k \in 1..Len(bits) :
                 bits[k] = 0 /\ \A j \in (k + 1)..Len(bits) : bits[j] = 1
    IN  [k \in 1..Len(bits) |-> IF k < p THEN bits[k] ELSE IF k = p THEN 1 ELSE 0]

\* round to nearest, ties to even: bits holds at least Precision digits,
\* sticky tells whether non-zero digits follow those of bits
RoundNearestEven(bits, e, sticky) ==
    LET m == SubSeq(bits, 1, Precision)
        rest == SubSeq(bits, Precision + 1, Len(bits))
        guard == rest # <<>> /\ rest[1] = 1
        tail == sticky \/ \E k \in 2..Len(rest) : rest[k] = 1
        up == guard /\ (tail \/ m[Precision] = 1)
    IN  IF ~up THEN [m |-> m, e |-> e]
        ELSE IF \A k \in 1..Precision : m[k] = 1
             THEN [m |-> <<1>> \o [k \in 1..(Precision - 1) |-> 0], e |-> e + 1]
             ELSE [m |-> Increment(m), e |-> e]

\* a / b of two positive ints (Python's true division, correctly rounded)
FloatDiv(a, b) ==
    IF a >= b
    THEN LET ib == IntBits(a \div b)
             n == Precision + 1 - Len(ib)
         IN  RoundNearestEven(ib \o FracBits(a % b, b, n), Len(ib),
                              FracRem(a % b, b, n) # 0)
    ELSE LET z == LeadZeros(a, b)
             r == FracRem(a, b, z)
         IN  RoundNearestEven(FracBits(r, b, Precision + 1), 0 - z,
                              FracRem(r, b, Precision + 1) # 0)

\* the w binary digits of n < 2^w, leading zeros included
Pad(n, w) == [k \in 1..w |-> (n \div (2 ^ (w - k))) % 2]

RECURSIVE MulBits(_, _, _)
\* the digits of bits * h + carry, 11 digits of bits at a time, last first
MulBits(bits, h, carry) ==
    IF Len(bits) <= 11 THEN IntBits(BitsInt(bits) * h + carry)
    ELSE LET t == BitsInt(SubSeq(bits, Len(bits) - 10, Len(bits))) * h + carry
         IN  MulBits(SubSeq(bits, 1, Len(bits) - 11), h, t \div 2048)
             \o Pad(t % 2048, 11)

\* h * x of a positive int h and a double x
FloatMul(h, x) ==
    LET prod == MulBits(x.m, h, 0)
    IN  RoundNearestEven(prod, x.e + Len(prod) - Precision, FALSE)

\* int(x) of a double below 2^Precision
FloatInt(x) == IF x.e <= 0 THEN 0 ELSE BitsInt(SubSeq(x.m, 1, x.e))

\* int(height*float(new_size/width)): the side that is not the longer one
ScaledSide(d, S, longer) == FloatInt(FloatMul(d, FloatDiv(S, longer)))

\* Image.resize(size): PIL refuses a width or height below 1 (ValueError)
PilResize(size) ==
    IF size[1] < 1 \/ size[2] < 1
    THEN [ok |-> FALSE, size |-> size]
    ELSE [ok |-> TRUE, size |-> size]

\* int((size[0] - image.size[0]) / 2), int((size[1] - image.size[1]) / 2)
PasteOffset(S, scaled) == <<(S - scaled[1]) \div 2, (S - scaled[2]) \div 2>>

\* An image scaled to 'scaled' and pasted on a new S x S white canvas
\* (scaled = canvas size and offset <<0, 0>> when nothing is pasted).
Padded(S, r) ==
    IF r.ok
    THEN [ok |-> TRUE, size |-> <<S, S>>, scaled |-> r.size,
          offset |-> PasteOffset(S, r.size), canvas |-> TRUE]
    ELSE [ok |-> FALSE, size |-> r.size, scaled |-> r.size,
          offset |-> <<0, 0>>, canvas |-> FALSE]

Plain(r) ==
    [ok |-> r.ok, size |-> r.size, scaled |-> r.size, offset |-> <<0, 0>>,
     canvas |-> FALSE]

ResizeImage(width, height, S) ==
    IF width # height
    THEN IF width > height
         THEN Padded(S, PilResize(<<S, ScaledSide(height, S, width)>>))
         ELSE IF height > width
              THEN Padded(S, PilResize(<<ScaledSide(width, S, height), S>>))
              ELSE Plain(PilResize(<<S, S>>))
    ELSE IF width # S \/ height # S
         THEN Plain(PilResize(<<S, S>>))
         ELSE Plain([ok |-> TRUE, size |-> <<width, height>>])

\* one call of _resize_image
Resize ==
    /\ pc = "resize"
    /\ result' = ResizeImage(image[1], image[2], new_size)
    /\ pc' = "resized"
    /\ UNCHANGED <<image, lkVars, dlVars, grVars>>

(***************************************************************************)
(* ImageManager.start_download and ImageManager._donwload_images           *)
(***************************************************************************)
Items == 1..Len(download_links)

\* img_name = f'{self.name_prefix}{link_list[0]}.jpg'
ImgFileName(prefix, name) == prefix \o name \o DotJpg

\* the tasks a worker of the pool is executing
Running == {i \in Items : fut[i] = "running"}

\* future.result() blocks until the task has returned or raised
ResultReadyNoWait(f) == TRUE

ResultReady(f) == f \in {"done", "error"}

\* where an exception raised inside the try block takes the task: the
\* UnicodeEncodeError clause fetches again with requests, three clauses log
\* and return, anything else leaves _donwload_images
HandlerStateRetry(exc) ==
    CASE exc = "UnicodeEncodeError" -> "Refetching"
      [] exc = "HTTPError" -> "Fetching"
      [] exc \in {"UnidentifiedImageError", "socket.timeout"} -> "Failed"
      [] OTHER -> "Raised"

HandlerState(exc) ==
    CASE exc = "UnicodeEncodeError" -> "Refetching"
      [] exc \in {"UnidentifiedImageError", "HTTPError", "socket.timeout"} -> "Failed"
      [] OTHER -> "Raised"

\* the second field of the row a logging clause writes; str(err) of an
\* HTTPError carries the status
ErrorKind(exc, code) ==
    CASE exc = "UnidentifiedImageError" -> <<"Image Broken">>
      [] exc = "HTTPError" -> <<"HTTP Error", code>>
      [] exc = "socket.timeout" -> <<"Timeout Err">>

\* what a logging clause returns
HandlerReturn(exc) ==
    CASE exc = "UnidentifiedImageError" -> FALSE
      [] exc = "HTTPError" -> FALSE
      [] exc = "socket.timeout" -> TRUE

\* the task returns r, after appending the rows (one or none) to error.csv
TaskReturns(i, s, r, rows) ==
    /\ st' = [st EXCEPT ![i] = s]
    /\ retval' = [retval EXCEPT ![i] = r]
    /\ fut' = [fut EXCEPT ![i] = "done"]
    /\ error_log' = error_log \o [k \in 1..Len(rows) |-> [item |-> i, row |-> rows[k]]]

\* the exception leaves _donwload_images and is stored in the future
TaskRaises(i) ==
    /\ st' = [st EXCEPT ![i] = "Raised"]
    /\ fut' = [fut EXCEPT ![i] = "error"]
    /\ UNCHANGED <<retval, error_log>>

\* exc is raised by a statement of the try block
RaiseInTry(i, exc, code) ==
    /\ raised' = [raised EXCEPT ![i] = Append(@, exc)]
    /\ LET s == HandlerState(exc)
       IN  CASE s = "Failed" ->
                  TaskReturns(i, "Failed", HandlerReturn(exc),
                              <<<<ImgFileName(name_prefix, download_links[i][1]),
                                  ErrorKind(exc, code), download_links[i][2]>>>>)
             [] s = "Raised" -> TaskRaises(i)
             [] OTHER -> /\ st' = [st EXCEPT ![i] = s]
                         /\ UNCHANGED <<retval, fut, error_log>>

\* exc is raised by a statement of the 'except UnicodeEncodeError' clause:
\* the clauses after it belong to the same try and do not apply
RaiseInHandler(i, exc) ==
    /\ raised' = [raised EXCEPT ![i] = Append(@, exc)]
    /\ TaskRaises(i)

InFallback(i) == st[i] \in {"Refetching", "FbDecoding", "FbSaving"}

\* executor.submit(self._donwload_images, url_pair)
Submit ==
    /\ pc = "submit"
    /\ idx <= Len(download_links)
    /\ fut' = [fut EXCEPT ![idx] = "pending"]
    /\ pc' = "result"
    /\ UNCHANGED <<download_links, name_prefix, resize, new_size, idx,
                   total_downloaded, st, attempts, status, raised, img, retval,
                   error_log, files, saved_by, lkVars, rsVars, grVars>>

\* result = future.result(); if result: total_downloaded += 1
\* (an exception stored in the future is raised again here)
Result ==
    /\ pc = "result"
    /\ ResultReady(fut[idx])
    /\ IF fut[idx] = "error"
       THEN /\ pc' = "raising"
            /\ UNCHANGED <<idx, total_downloaded>>
       ELSE /\ total_downloaded' =
                   IF fut[idx] = "done" /\ retval[idx]
                   THEN total_downloaded + 1 ELSE total_downloaded
            /\ idx' = idx + 1
            /\ pc' = "submit"
    /\ UNCHANGED <<download_links, name_prefix, resize, new_size, fut, st,
                   attempts, status, raised, img, retval, error_log, files,
                   saved_by, lkVars, rsVars, grVars>>

\* leaving the with block waits for the tasks of the pool
\* (ThreadPoolExecutor.__exit__), then start_download returns or raises
LeaveWith ==
    /\ \/ pc = "submit" /\ idx > Len(download_links) /\ pc' = "returned"
       \/ pc = "raising" /\ pc' = "raised"
    /\ \A i \in Items : fut[i] \notin {"pending", "running"}
    /\ UNCHANGED <<lkVars, dlVars, rsVars, grVars>>

\* a free worker of the pool takes the task
Start(i) ==
    /\ fut[i] = "pending"
    /\ Cardinality(Running) < MaxWorkers
    /\ fut' = [fut EXCEPT ![i] = "running"]
    /\ st' = [st EXCEPT ![i] = "Fetching"]
    /\ UNCHANGED <<pc, download_links, name_prefix, resize, new_size, idx,
                   total_downloaded, attempts, status, raised, img, retval,
                   error_log, files, saved_by, lkVars, rsVars, grVars>>

Statuses == {200, 404}

\* response = http.request('GET', link, headers=hdr) and the status test
Request(i) ==
    /\ fut[i] = "running"
    /\ st[i] = "Fetching"
    /\ attempts' = [attempts EXCEPT ![i] = Append(@, "urllib3")]
    /\ \E o \in {"response", "socket.timeout", "UnicodeEncodeError", "urllib3.MaxRetryError"} :
         IF o = "response"
         THEN \E code \in Statuses :
                /\ status' = [status EXCEPT ![i] = code]
                /\ IF code # 200
                   THEN RaiseInTry(i, "HTTPError", code)
                   ELSE /\ st' = [st EXCEPT ![i] = "Decoding"]
                        /\ UNCHANGED <<raised, retval, fut, error_log>>
         ELSE /\ RaiseInTry(i, o, 0)
              /\ UNCHANGED status
    /\ UNCHANGED <<pc, download_links, name_prefix, resize, new_size, idx,
                   total_downloaded, img, files, saved_by, lkVars, rsVars, grVars>>

\* response = requests.get(link, timeout=10): no status test follows
FallbackRequest(i) ==
    /\ fut[i] = "running"
    /\ st[i] = "Refetching"
    /\ attempts' = [attempts EXCEPT ![i] = Append(@, "requests")]
    /\ \/ \E code \in Statuses :
            /\ status' = [status EXCEPT ![i] = code]
            /\ st' = [st EXCEPT ![i] = "FbDecoding"]
            /\ UNCHANGED <<raised, retval, fut, error_log>>
       \/ /\ RaiseInHandler(i, "RequestException")
          /\ UNCHANGED status
    /\ UNCHANGED <<pc, download_links, name_prefix, resize, new_size, idx,
                   total_downloaded, img, files, saved_by, lkVars, rsVars, grVars>>

\* file = Image.open(BytesIO(...)); _remove_transparency; convert('RGB')
Decode(i) ==
    /\ fut[i] = "running"
    /\ st[i] \in {"Decoding", "FbDecoding"}
    /\ \/ \E w \in 1..MaxDim, h \in 1..MaxDim :
            /\ img' = [img EXCEPT ![i] = <<w, h>>]
            /\ st' = [st EXCEPT ![i] = IF InFallback(i) THEN "FbSaving" ELSE "Saving"]
            /\ UNCHANGED <<raised, retval, fut, error_log>>
       \/ /\ IF InFallback(i)
             THEN RaiseInHandler(i, "UnidentifiedImageError")
             ELSE RaiseInTry(i, "UnidentifiedImageError", 0)
          /\ UNCHANGED img
    /\ UNCHANGED <<pc, download_links, name_prefix, resize, new_size, idx,
                   total_downloaded, attempts, status, files, saved_by,
                   lkVars, rsVars, grVars>>

\* if self.resize: new_image = self._resize_image(file); save; return True
Save(i) ==
    /\ fut[i] = "running"
    /\ st[i] \in {"Saving", "FbSaving"}
    /\ LET out == IF resize THEN ResizeImage(img[i][1], img[i][2], new_size)
                  ELSE Plain([ok |-> TRUE, size |-> img[i]])
       IN  IF out.ok
           THEN /\ files' = files \cup {ImgFileName(name_prefix, download_links[i][1])}
                /\ saved_by' = saved_by \cup {i}
                /\ TaskReturns(i, "Saved", TRUE, <<>>)
                /\ UNCHANGED raised
           ELSE /\ IF InFallback(i)
                   THEN RaiseInHandler(i, "ValueError")
                   ELSE RaiseInTry(i, "ValueError", 0)
                /\ UNCHANGED <<files, saved_by>>
    /\ img' = [img EXCEPT ![i] = <<0, 0>>]
    /\ UNCHANGED <<pc, download_links, name_prefix, resize, new_size, idx,
                   total_downloaded, attempts, status, lkVars, rsVars, grVars>>

(***************************************************************************)
(* AzureManager.send_files and AzureManager._generate_csv_from_files       *)
(***************************************************************************)
\* re.search('[/_][0-9].jpg', file_name): not anchored, '.' is any character
ReSearch(s) ==
    \E k \in 1..(Len(s) - 5) :
        /\ s[k] \in {"/", "_"}
        /\ s[k + 1] \in DigitChars
        /\ SubSeq(s, k + 3, k + 5) = <<"j", "p", "g">>

\* positions of the character sep in s
Positions(s, sep) == {k \in 1..Len(s) : s[k] = sep}

Max(S) == CHOOSE x \in S : \A y \in S : y <= x
Min(S) == CHOOSE x \in S : \A y \in S : x <= y

\* s.split(sep)[-1]: what follows the last sep, all of s without a sep
SplitLast(s, sep) ==
    IF Positions(s, sep) = {} THEN s
    ELSE SubSeq(s, Max(Positions(s, sep)) + 1, Len(s))

\* s.split(sep)[0]: what precedes the first sep, all of s without a sep
SplitFirst(s, sep) ==
    IF Positions(s, sep) = {} THEN s
    ELSE SubSeq(s, 1, Min(Positions(s, sep)) - 1)

RECURSIVE Remove(_, _)
\* s.replace(old, ''), old not empty: every occurrence, left to right
Remove(s, old) ==
    IF Len(s) < Len(old) THEN s
    ELSE IF SubSeq(s, 1, Len(old)) = old
         THEN Remove(SubSeq(s, Len(old) + 1, Len(s)), old)
         ELSE <<Head(s)>> \o Remove(Tail(s), old)

\* the key a file is filed under (the two branches of the first loop)
BaseName(file_name) ==
    IF ReSearch(file_name)
    THEN LET sufix == SplitLast(file_name, "_")
         IN  Remove(file_name, <<"_">> \o sufix)
    ELSE SplitFirst(file_name, ".")

\* try: dict_files[base_name].append(file_name)
\* except KeyError: dict_files[base_name] = [file_name]
DictAdd(d, base_name, file_name) ==
    IF \E k \in 1..Len(d) : d[k].key = base_name
    THEN [k \in 1..Len(d) |->
            IF d[k].key = base_name
            THEN [d[k] EXCEPT !.files = Append(@, file_name)]
            ELSE d[k]]
    ELSE Append(d, [key |-> base_name, files |-> <<file_name>>])

\* urls = [file_name] + [f'{self.url_base}{name}' for name in file_list]
ManifestRow(e) ==
    <<e.key>> \o [k \in 1..Len(e.files) |-> url_base \o e.files[k]]

\* the listings os.listdir may return for a directory holding the files S
Listings(S) ==
    {l \in [1..Cardinality(S) -> S] : \A a, b \in 1..Cardinality(S) : l[a] = l[b] => a = b}

\* files_to_upload = [f for f in os.listdir(folder) ...], run by main after
\* start_download has returned
ListDir ==
    /\ pc = "returned"
    /\ \E l \in Listings(files) : directory_files' = l
    /\ pc' = "group"
    /\ UNCHANGED <<url_base, file_i, dict_files, manifest, lkVars, dlVars, rsVars>>

\* one iteration of 'for file in directory_files'
GroupFile ==
    /\ pc = "group"
    /\ file_i < Len(directory_files)
    /\ LET file_name == directory_files[file_i + 1]
       IN  dict_files' = DictAdd(dict_files, BaseName(file_name), file_name)
    /\ file_i' = file_i + 1
    /\ UNCHANGED <<pc, url_base, directory_files, manifest, lkVars, dlVars, rsVars>>

\* one iteration of 'for file_name in dict_files': a row of new_file.csv
WriteRow ==
    /\ pc = "group"
    /\ file_i = Len(directory_files)
    /\ Len(manifest) < Len(dict_files)
    /\ manifest' = Append(manifest, ManifestRow(dict_files[Len(manifest) + 1]))
    /\ UNCHANGED <<pc, url_base, directory_files, file_i, dict_files, lkVars,
                   dlVars, rsVars>>

\* _generate_csv_from_files returns
GroupDone ==
    /\ pc = "group"
    /\ file_i = Len(directory_files)
    /\ Len(manifest) = Len(dict_files)
    /\ pc' = "grouped"
    /\ UNCHANGED <<lkVars, dlVars, rsVars, grVars>>

\* start_download, after _return_links has returned: total_downloaded = 0
\* and the loop over download_links
BeginDownload ==
    /\ pc = "links_returned"
    /\ download_links' = link_list
    /\ idx' = 1
    /\ total_downloaded' = 0
    /\ fut' = [i \in 1..Len(link_list) |-> "none"]
    /\ st' = [i \in 1..Len(link_list) |-> "Pending"]
    /\ attempts' = [i \in 1..Len(link_list) |-> <<>>]
    /\ status' = [i \in 1..Len(link_list) |-> 0]
    /\ raised' = [i \in 1..Len(link_list) |-> <<>>]
    /\ img' = [i \in 1..Len(link_list) |-> <<0, 0>>]
    /\ retval' = [i \in 1..Len(link_list) |-> FALSE]
    /\ pc' = "submit"
    /\ UNCHANGED <<name_prefix, resize, new_size, error_log, files, saved_by,
                   lkVars, rsVars, grVars>>

(***************************************************************************)
(* Initial states and specifications.                                      *)
(***************************************************************************)
LkIdle == url_list = <<>> /\ link_list = <<>> /\ row_i = 0

DlIdle ==
    /\ download_links = <<>> /\ idx = 1 /\ total_downloaded = 0
    /\ fut = <<>> /\ st = <<>> /\ attempts = <<>> /\ status = <<>>
    /\ raised = <<>> /\ img = <<>> /\ retval = <<>>
    /\ error_log = <<>> /\ files = {} /\ saved_by = {}

NoResult ==
    [ok |-> FALSE, size |-> <<0, 0>>, scaled |-> <<0, 0>>, offset |-> <<0, 0>>,
     canvas |-> FALSE]

RsIdle == image = <<1, 1>> /\ result = NoResult

GrIdle ==
    /\ url_base = <<>> /\ directory_files = <<>> /\ file_i = 0
    /\ dict_files = <<>> /\ manifest = <<>>

\* the cell at row r, column j of a csv: an identifier or a link
Cell(kind, r, j) ==
    IF kind = "url" THEN Http \o Str(r) \o Str(j) ELSE <<"c">> \o Str(r)

\* the csv files of at most MaxRows rows of at most MaxCols cells
CsvFiles ==
    {[r \in 1..Len(p) |-> [j \in 1..Len(p[r]) |-> Cell(p[r][j], r, j)]] :
        p \in SeqsUpTo(SeqsUpTo({"id", "url"}, MaxCols), MaxRows)}

Prefixes == {<<>>, <<"p", "_">>}

\* ---- _return_links alone
InitLinks ==
    /\ pc = "return_links"
    /\ url_list \in CsvFiles
    /\ link_list = <<>>
    /\ row_i = 0
    /\ name_prefix = <<>> /\ resize = FALSE /\ new_size = 1
    /\ DlIdle /\ RsIdle /\ GrIdle

NextLinks == ReturnLinksRow \/ ReturnLinksDone

SpecLinks == InitLinks /\ [][NextLinks]_vars

\* ---- start_download on a list of work items
WorkItems == {<<ImgName(<<"a">>, j), Http \o Str(j)>> : j \in 1..2}

InitDownload ==
    /\ pc = "submit"
    /\ download_links \in SeqsUpTo(WorkItems, MaxItems)
    /\ name_prefix \in Prefixes
    /\ resize \in BOOLEAN
    /\ new_size \in 1..MaxSize
    /\ idx = 1
    /\ total_downloaded = 0
    /\ fut = [i \in 1..Len(download_links) |-> "none"]
    /\ st = [i \in 1..Len(download_links) |-> "Pending"]
    /\ attempts = [i \in 1..Len(download_links) |-> <<>>]
    /\ status = [i \in 1..Len(download_links) |-> 0]
    /\ raised = [i \in 1..Len(download_links) |-> <<>>]
    /\ img = [i \in 1..Len(download_links) |-> <<0, 0>>]
    /\ retval = [i \in 1..Len(download_links) |-> FALSE]
    /\ error_log = <<>>
    /\ files = {}
    /\ saved_by = {}
    /\ LkIdle /\ RsIdle /\ GrIdle

NextDownload ==
    \/ Submit
    \/ Result
    \/ LeaveWith
    \/ \E i \in Items : Start(i)
    \/ \E i \in Items : Request(i)
    \/ \E i \in Items : FallbackRequest(i)
    \/ \E i \in Items : Decode(i)
    \/ \E i \in Items : Save(i)

Spec == InitDownload /\ [][NextDownload]_vars

\* ---- _resize_image alone: small sizes, and sizes at which the rounding
\* of the double quotient shows
Sides == (1..MaxSide) \cup {11, 22}

Sizes == (1..MaxSize) \cup {30}

InitResize ==
    /\ pc = "resize"
    /\ image \in Sides \X Sides
    /\ new_size \in Sizes
    /\ result = NoResult
    /\ name_prefix = <<>> /\ resize = TRUE
    /\ LkIdle /\ DlIdle /\ GrIdle

NextResize == Resize

SpecResize == InitResize /\ [][NextResize]_vars

\* ---- _generate_csv_from_files on a directory listing
StemChars == {"a", "_", "1", ".", "/"}

\* file names a<rest>.jpg, rest of at most MaxStem characters
FileNames == {<<"a">> \o rest \o DotJpg : rest \in SeqsUpTo(StemChars, MaxStem)}

InitGroup ==
    /\ pc = "group"
    /\ url_base = <<"U">>
    /\ directory_files \in
         {l \in SeqsUpTo(FileNames, MaxFiles) : \A a, b \in 1..Len(l) : l[a] = l[b] => a = b}
    /\ file_i = 0
    /\ dict_files = <<>>
    /\ manifest = <<>>
    /\ name_prefix = <<>> /\ resize = FALSE /\ new_size = 1
    /\ LkIdle /\ DlIdle /\ RsIdle

NextGroup == GroupFile \/ WriteRow \/ GroupDone

SpecGroup == InitGroup /\ [][NextGroup]_vars

\* ---- main: one csv row, downloaded, then grouped for the upload
Bases == {<<"c">>, <<"a", ".", "b">>}

InitMain ==
    /\ pc = "return_links"
    /\ \E b \in Bases, k \in 1..MaxUrls :
         url_list = << <<b>> \o [j \in 1..k |-> Http \o Str(j)] >>
    /\ link_list = <<>>
    /\ row_i = 0
    /\ name_prefix \in Prefixes
    /\ resize = TRUE
    /\ new_size \in 1..MaxSize
    /\ url_base = <<"U">>
    /\ directory_files = <<>> /\ file_i = 0 /\ dict_files = <<>> /\ manifest = <<>>
    /\ DlIdle /\ RsIdle

NextMain == NextLinks \/ BeginDownload \/ NextDownload \/ ListDir \/ NextGroup

SpecMain == InitMain /\ [][NextMain]_vars

(***************************************************************************)
(* Properties.                                                             *)
(***************************************************************************)
\* the rows of error.csv written for item i
RowsOf(i) == SelectSeq(error_log, LAMBDA e : e.item = i)

Finished(i) == fut[i] \in {"done", "error"}

Range(f) == {f[k] : k \in DOMAIN f}

\* C1: when start_download returns, the count it returns is the number of
\* work items that ended Saved (a file was written); an item that ended
\* with an error-log row is not counted.
C1_CountEqualsSaved ==
    pc = "returned" =>
        /\ total_downloaded = Cardinality({i \in Items : st[i] = "Saved"})
        /\ total_downloaded = Cardinality(saved_by)

\* C2: an item whose response has a status other than 200, whose bytes do
\* not decode or whose request times out gets exactly one row
\* [fileName, errorKind, url] and no image file; a saved item gets no row;
\* no item has both a file and a row.
C2_ExpectedKind(i) ==
    IF status[i] \notin {0, 200} THEN <<"HTTP Error", status[i]>>
    ELSE IF "UnidentifiedImageError" \in Range(raised[i]) THEN <<"Image Broken">>
    ELSE <<"Timeout Err">>

C2_OneRowPerFailure ==
    \A i \in Items :
        Finished(i) =>
            /\ (\/ status[i] \notin {0, 200}
                \/ "UnidentifiedImageError" \in Range(raised[i])
                \/ "socket.timeout" \in Range(raised[i]))
               => /\ i \notin saved_by
                  /\ Len(RowsOf(i)) = 1
                  /\ RowsOf(i)[1].row =
                        <<name_prefix \o download_links[i][1] \o DotJpg,
                          C2_ExpectedKind(i), download_links[i][2]>>
            /\ i \in saved_by => RowsOf(i) = <<>>

\* C3: a row with base identifier b and k >= 1 url cells (cells containing
\* 'http') adds exactly k work items, in column order, named b, b_1, ...,
\* b_(k-1); the numbering restarts at every row and rows keep their order.
C3_UrlCols(row) == {j \in 1..Len(row) : Contains(row[j], Http)}

C3_NthCol(row, m) ==
    CHOOSE j \in C3_UrlCols(row) : Cardinality({x \in C3_UrlCols(row) : x <= j}) = m

C3_Items(row) ==
    [m \in 1..Cardinality(C3_UrlCols(row)) |->
        <<IF m = 1 THEN row[1] ELSE row[1] \o <<"_">> \o Str(m - 1),
          row[C3_NthCol(row, m)]>>]

C3_RowNumbering ==
    link_list = Flatten([r \in 1..row_i |-> C3_Items(url_list[r])])

C3_Witness ==
    /\ pc = "links_returned"
    /\ Len(url_list) = 2
    /\ \A r \in 1..2 : /\ Len(url_list[r]) = 3
                       /\ ~Contains(url_list[r][1], Http)
                       /\ Cardinality(C3_UrlCols(url_list[r])) = 2
    /\ Len(link_list) = 4

\* C4: for a row of any length, the empty row included, the first cell is
\* only the base identifier: the row adds as many work items as it has
\* cells at column index >= 1 (0-based) containing 'http', and a row
\* without such a cell adds none and does not make the extraction fail.
RECURSIVE C4_Count(_)
C4_Count(rows) ==
    IF rows = <<>> THEN 0
    ELSE Cardinality({j \in 2..Len(Head(rows)) : Contains(Head(rows)[j], Http)})
         + C4_Count(Tail(rows))

C4_FirstCellOnlyBase ==
    /\ pc # "IndexError"
    /\ Len(link_list) = C4_Count(SubSeq(url_list, 1, row_i))

\* C5: for every w, h, S >= 1 _resize_image returns an S x S image: a
\* square input is scaled uniformly (no canvas); a non-square input has
\* its longer side scaled to S, its shorter side to
\* floor(shorter * S / longer) >= 1, and is pasted at
\* ((S - scaledW) div 2, (S - scaledH) div 2) inside an S x S canvas.
C5_AlwaysSquare ==
    pc = "resized" =>
        LET w == image[1]
            h == image[2]
            S == new_size
            expected == IF w > h THEN <<S, (h * S) \div w>> ELSE <<(w * S) \div h, S>>
        IN  /\ result.ok
            /\ result.size = <<S, S>>
            /\ w = h => ~result.canvas /\ result.scaled = <<S, S>>
            /\ w # h =>
                 /\ result.canvas
                 /\ result.scaled = expected
                 /\ expected[1] >= 1 /\ expected[2] >= 1
                 /\ result.offset = <<(S - expected[1]) \div 2, (S - expected[2]) \div 2>>
                 /\ \A d \in 1..2 : /\ result.offset[d] >= 0
                                    /\ result.offset[d] + result.scaled[d] <= S

\* C6: the group key of a file name <base>_<digit>.jpg or
\* <base>/<digit>.jpg is <base>; of any other file name it is the name
\* with only its extension removed.
C6_Key(f) ==
    IF /\ Len(f) >= 6
       /\ SubSeq(f, Len(f) - 3, Len(f)) = DotJpg
       /\ f[Len(f) - 4] \in DigitChars
       /\ f[Len(f) - 5] \in {"_", "/"}
    THEN SubSeq(f, 1, Len(f) - 6)
    ELSE IF Positions(f, ".") = {} THEN f
         ELSE SubSeq(f, 1, Max(Positions(f, ".")) - 1)

C6_GroupKey ==
    \A k \in 1..Len(dict_files) :
        \A n \in 1..Len(dict_files[k].files) :
            dict_files[k].key = C6_Key(dict_files[k].files[n])

\* C7: for a csv row with base b and k >= 1 urls, all saved with prefix p,
\* the grouper run with url base u writes exactly one manifest row,
\* [p+b, u+p+b.jpg, u+p+b_1.jpg, ..., u+p+b_(k-1).jpg], whatever the order
\* of the directory listing.
C7_Row ==
    LET b == url_list[1][1]
        k == Len(url_list[1]) - 1
    IN  <<name_prefix \o b>> \o
        [j \in 1..k |->
            url_base \o name_prefix \o
            (IF j = 1 THEN b ELSE b \o <<"_">> \o Str(j - 1)) \o DotJpg]

C7_OneManifestRow ==
    (pc = "grouped" /\ \A i \in Items : st[i] = "Saved") => manifest = <<C7_Row>>

\* C8: in every run of start_download every work item reaches exactly one
\* terminal state (Saved or Failed) with one download result, whatever
\* happens to the other items, and start_download returns its count: once
\* the run has ended, it has returned and every item is Saved or Failed.
C8_AllItemsTerminal ==
    pc \in {"returned", "raised"} =>
        /\ pc = "returned"
        /\ \A i \in Items : st[i] \in {"Saved", "Failed"} /\ fut[i] = "done"

C10_Serialized ==
    /\ Cardinality(Running) <= 1
    /\ \A i \in Items : fut[i] \in {"pending", "running"} => pc = "result" /\ i = idx
    /\ \A i \in Items : i < idx => fut[i] = "done"
    /\ total_downloaded = Cardinality({i \in Items : i < idx /\ retval[i]})

C10_Witness ==
    /\ Len(download_links) = 2
    /\ idx = 2
    /\ fut[2] = "running" /\ st[2] = "Decoding"
    /\ total_downloaded = 1
    /\ Len(error_log) = 1

====
